---------------------------- MODULE Spec2Model ----------------------------
(***************************************************************************)
(* Model of the in-memory key store of sgarcez/short                       *)
(* (pkg/shortservice: inMemService.Create and inMemService.Lookup).        *)
(*                                                                         *)
(* A string is a sequence of bytes (values) or of characters of the        *)
(* URL-safe base-64 alphabet (digests and derived keys).  A 32-bit word of *)
(* the MD5 computation is a pair <<hi, lo>> of 16-bit halves.              *)
(***************************************************************************)
EXTENDS Integers, Sequences, FiniteSets, TLC

(***************************************************************************)
(* Program constants.                                                      *)
(***************************************************************************)
maxLen == 2083

minKeySize == 6

(***************************************************************************)
(* Bounds of the model.                                                    *)
(***************************************************************************)
\* number of Create/Lookup calls in one behaviour, each made by a goroutine
\* of its own (one per request), so that any of them may run concurrently
MaxCalls == 3

\* the number of calls made through the middlewares and over the transports
MaxRequests == 2

(***************************************************************************)
(* crypto/md5 (RFC 1321), as called by Create: md5.New, Write, Sum(nil).   *)
(***************************************************************************)
Pow2(n) == 2 ^ n

RECURSIVE And16(_, _, _)
\* bitwise AND of the n low bits of a and b
And16(a, b, n) ==
    IF n = 0 \/ a = 0 \/ b = 0 THEN 0
    ELSE (a % 2) * (b % 2) + 2 * And16(a \div 2, b \div 2, n - 1)

WAnd(x, y) == <<And16(x[1], y[1], 16), And16(x[2], y[2], 16)>>

WNot(x) == <<65535 - x[1], 65535 - x[2]>>

WOr(x, y) ==
    LET a == WAnd(x, y) IN <<x[1] + y[1] - a[1], x[2] + y[2] - a[2]>>

WXor(x, y) ==
    LET a == WAnd(x, y)
    IN  <<x[1] + y[1] - 2 * a[1], x[2] + y[2] - 2 * a[2]>>

\* addition modulo 2^32
WAdd(x, y) ==
    LET lo == x[2] + y[2]
        hi == x[1] + y[1] + (lo \div 65536)
    IN  <<hi % 65536, lo % 65536>>

\* rotation to the left by s bits, 0 <= s < 32
WRotl(x, s) ==
    LET y == IF s >= 16 THEN <<x[2], x[1]>> ELSE x
        t == s % 16
    IN  <<((y[1] * Pow2(t)) % 65536) + (y[2] \div Pow2(16 - t)),
          ((y[2] * Pow2(t)) % 65536) + (y[1] \div Pow2(16 - t))>>

md5Shift ==
    <<7, 12, 17, 22, 7, 12, 17, 22, 7, 12, 17, 22, 7, 12, 17, 22,
      5, 9, 14, 20, 5, 9, 14, 20, 5, 9, 14, 20, 5, 9, 14, 20,
      4, 11, 16, 23, 4, 11, 16, 23, 4, 11, 16, 23, 4, 11, 16, 23,
      6, 10, 15, 21, 6, 10, 15, 21, 6, 10, 15, 21, 6, 10, 15, 21>>

\* floor(2^32 * abs(sin(i))) for i = 1..64
md5Sine == <<
    <<55146, 42104>>, <<59591, 46934>>, <<9248, 28891>>, <<49597, 52974>>,
    <<62844, 4015>>, <<18311, 50730>>, <<43056, 17939>>, <<64838, 38145>>,
    <<27008, 39128>>, <<35652, 63407>>, <<65535, 23473>>, <<35164, 55230>>,
    <<27536, 4386>>, <<64920, 29075>>, <<42617, 17294>>, <<18868, 2081>>,
    <<63006, 9570>>, <<49216, 45888>>, <<9822, 23121>>, <<59830, 51114>>,
    <<54831, 4189>>, <<580, 5203>>, <<55457, 59009>>, <<59347, 64456>>,
    <<8673, 52710>>, <<49975, 2006>>, <<62677, 3463>>, <<17754, 5357>>,
    <<43491, 59653>>, <<64751, 41976>>, <<26479, 729>>, <<36138, 19594>>,
    <<65530, 14658>>, <<34673, 63105>>, <<28061, 24866>>, <<64997, 14348>>,
    <<42174, 59972>>, <<19422, 53161>>, <<63163, 19296>>, <<48831, 48240>>,
    <<10395, 32454>>, <<60065, 10234>>, <<54511, 12421>>, <<1160, 7429>>,
    <<55764, 53305>>, <<59099, 39397>>, <<8098, 31992>>, <<50348, 22117>>,
    <<62505, 8772>>, <<17194, 65431>>, <<43924, 9127>>, <<64659, 41017>>,
    <<25947, 22979>>, <<36620, 52370>>, <<65519, 62589>>, <<34180, 24017>>,
    <<28584, 32335>>, <<65068, 59104>>, <<41729, 17172>>, <<19976, 4513>>,
    <<63315, 32386>>, <<48442, 62005>>, <<10967, 53947>>, <<60294, 54161>> >>

\* initial chaining value 67452301 efcdab89 98badcfe 10325476 (hex)
md5Init == << <<26437, 8961>>, <<61389, 43913>>, <<39098, 56574>>, <<4146, 21622>> >>

\* the message followed by 0x80, zeros up to 56 mod 64, and the bit length
\* as 8 little-endian bytes
md5Pad(msg) ==
    LET n     == Len(msg)
        zeros == (119 - (n % 64)) % 64
        bits  == n * 8
    IN  msg \o <<128>> \o [i \in 1..zeros |-> 0]
            \o [i \in 1..8 |-> IF i <= 4 THEN (bits \div (256 ^ (i - 1))) % 256 ELSE 0]

\* the 16 little-endian words of the 64-byte block starting after byte `at`
md5Words(bytes, at) ==
    [j \in 1..16 |->
        <<bytes[at + 4 * j - 1] + 256 * bytes[at + 4 * j],
          bytes[at + 4 * j - 3] + 256 * bytes[at + 4 * j - 2]>>]

\* step i (0..63) of the compression function on the state st = <<A, B, C, D>>
md5Step(i, st, M) ==
    LET A == st[1]
        B == st[2]
        C == st[3]
        D == st[4]
        F == IF i < 16 THEN WOr(WAnd(B, C), WAnd(WNot(B), D))
             ELSE IF i < 32 THEN WOr(WAnd(D, B), WAnd(WNot(D), C))
             ELSE IF i < 48 THEN WXor(B, WXor(C, D))
             ELSE WXor(C, WOr(B, WNot(D)))
        g == IF i < 16 THEN i
             ELSE IF i < 32 THEN (5 * i + 1) % 16
             ELSE IF i < 48 THEN (3 * i + 5) % 16
             ELSE (7 * i) % 16
        sum == WAdd(WAdd(F, A), WAdd(md5Sine[i + 1], M[g + 1]))
    IN  <<D, WAdd(B, WRotl(sum, md5Shift[i + 1])), B, C>>

RECURSIVE md5Rounds(_, _, _, _)
\* steps lo .. hi-1 of the compression function applied in order to st: the
\* loop over i = lo .. hi-1, split in halves; `half` is the state after the
\* first half
md5Rounds(lo, hi, st, M) ==
    IF hi = lo + 1 THEN md5Step(lo, st, M)
    ELSE LET mid == (lo + hi) \div 2
         IN  CHOOSE r \in {md5Rounds(mid, hi, half, M) :
                              half \in {md5Rounds(lo, mid, st, M)}} : TRUE

\* the 64-byte block starting after byte `at` folded into the chaining value h
md5Block(h, bytes, at) ==
    LET st == md5Rounds(0, 64, h, md5Words(bytes, at))
    IN  <<WAdd(h[1], st[1]), WAdd(h[2], st[2]), WAdd(h[3], st[3]), WAdd(h[4], st[4])>>

RECURSIVE md5Blocks(_, _, _, _)
\* blocks lo .. hi-1 (of 64 bytes each) folded in order into h, hi > lo
md5Blocks(h, bytes, lo, hi) ==
    IF hi = lo + 1 THEN md5Block(h, bytes, 64 * lo)
    ELSE LET mid == (lo + hi) \div 2
         IN  CHOOSE r \in {md5Blocks(half, bytes, mid, hi) :
                              half \in {md5Blocks(h, bytes, lo, mid)}} : TRUE

\* the 16 bytes of the digest: the four words, little-endian
md5Sum(msg) ==
    LET bytes == md5Pad(msg)
        h == md5Blocks(md5Init, bytes, 0, Len(bytes) \div 64)
    IN  [i \in 1..16 |->
            LET w == h[((i - 1) \div 4) + 1]
                b == (i - 1) % 4
            IN  IF b = 0 THEN w[2] % 256
                ELSE IF b = 1 THEN w[2] \div 256
                ELSE IF b = 2 THEN w[1] % 256
                ELSE w[1] \div 256]

(***************************************************************************)
(* encoding/base64: RawURLEncoding.EncodeToString (URL-safe alphabet, no   *)
(* padding).                                                               *)
(***************************************************************************)
encodeURL ==
    <<"A", "B", "C", "D", "E", "F", "G", "H", "I", "J", "K", "L", "M", "N", "O", "P",
      "Q", "R", "S", "T", "U", "V", "W", "X", "Y", "Z", "a", "b", "c", "d", "e", "f",
      "g", "h", "i", "j", "k", "l", "m", "n", "o", "p", "q", "r", "s", "t", "u", "v",
      "w", "x", "y", "z", "0", "1", "2", "3", "4", "5", "6", "7", "8", "9", "-", "_">>

\* number of characters that encode n bytes without padding
EncodedLen(n) == (n * 8 + 5) \div 6

\* character i (1-based) of the encoding: the i-th group of 6 bits of the
\* byte string, the last group filled with zero bits
EncodeToString(bytes) ==
    [i \in 1..EncodedLen(Len(bytes)) |->
        LET bit   == (i - 1) * 6
            k     == (bit \div 8) + 1
            r     == bit % 8
            b1    == bytes[k]
            b2    == IF k + 1 <= Len(bytes) THEN bytes[k + 1] ELSE 0
            both  == b1 * 256 + b2
        IN  encodeURL[((both \div Pow2(10 - r)) % 64) + 1]]

(***************************************************************************)
(* Inputs of the model: the strings the callers submit.                    *)
(***************************************************************************)
\* "12345", the value of the repository's TestHTTP
val12345 == <<49, 50, 51, 52, 53>>

\* "40835243", "686053" and "3557960".  The digests of the first two begin
\* with the same six characters, and the digest of the third begins with the
\* characters 2..8 of the digest of the second:
\*     40835243  WT5q6_IWXoMnHaB2gMn3dg
\*     686053    WT5q6_7WnDaZy3uYruvslA
\*     3557960    T5q6_7Wuq9qHwtNGz5OiSg
valA == <<52, 48, 56, 51, 53, 50, 52, 51>>

valB == <<54, 56, 54, 48, 53, 51>>

valC == <<51, 53, 53, 55, 57, 54, 48>>

\* maxLen and maxLen + 1 times the byte "a"
valMaxLen == [i \in 1..maxLen |-> 97]

valTooLong == [i \in 1..(maxLen + 1) |-> 97]

\* keys of maxLen and maxLen + 1 characters
keyMaxLen == [i \in 1..maxLen |-> "A"]

keyTooLong == [i \in 1..(maxLen + 1) |-> "A"]

Colliding == {valA, valB, valC}

\* Two strings of 128 bytes with one MD5 sum (Wang, Feng, Lai and Yu, 2004),
\* 79054025255fb1a26e4bc422aef54eb4: they differ in six bytes
wangA == <<
    209, 49, 221, 2, 197, 230, 238, 196, 105, 61, 154, 6, 152, 175, 249,
    92, 47, 202, 181, 135, 18, 70, 126, 171, 64, 4, 88, 62, 184, 251, 127,
    137, 85, 173, 52, 6, 9, 244, 179, 2, 131, 228, 136, 131, 37, 113, 65,
    90, 8, 81, 37, 232, 247, 205, 201, 159, 217, 29, 189, 242, 128, 55,
    60, 91, 216, 130, 62, 49, 86, 52, 143, 91, 174, 109, 172, 212, 54,
    201, 25, 198, 221, 83, 226, 180, 135, 218, 3, 253, 2, 57, 99, 6, 210,
    72, 205, 160, 233, 159, 51, 66, 15, 87, 126, 232, 206, 84, 182, 112,
    128, 168, 13, 30, 198, 152, 33, 188, 182, 168, 131, 147, 150, 249,
    101, 43, 111, 247, 42, 112 >>

wangB == <<
    209, 49, 221, 2, 197, 230, 238, 196, 105, 61, 154, 6, 152, 175, 249,
    92, 47, 202, 181, 7, 18, 70, 126, 171, 64, 4, 88, 62, 184, 251, 127,
    137, 85, 173, 52, 6, 9, 244, 179, 2, 131, 228, 136, 131, 37, 241, 65,
    90, 8, 81, 37, 232, 247, 205, 201, 159, 217, 29, 189, 114, 128, 55,
    60, 91, 216, 130, 62, 49, 86, 52, 143, 91, 174, 109, 172, 212, 54,
    201, 25, 198, 221, 83, 226, 52, 135, 218, 3, 253, 2, 57, 99, 6, 210,
    72, 205, 160, 233, 159, 51, 66, 15, 87, 126, 232, 206, 84, 182, 112,
    128, 40, 13, 30, 198, 152, 33, 188, 182, 168, 131, 147, 150, 249, 101,
    171, 111, 247, 42, 112 >>

\* The strings with that MD5 sum are as many as one likes (a multicollision
\* is built from collisions block by block), and fewer than maxLen bytes
\* suffice for more of them than a digest has windows.  Beyond wangA and wangB their
\* bytes are not spelt out: <<-i>>, which is no string of bytes, stands for
\* the i-th of them.
SameSum(i) == IF i = 1 THEN wangA ELSE IF i = 2 THEN wangB ELSE <<-i>>

Unspelt(v) == Len(v) = 1 /\ v[1] < 0

(***************************************************************************)
(* inMemService.Create, lines 131-139: the digest of v,                    *)
(* base64.RawURLEncoding.EncodeToString(md5(v)).                           *)
(***************************************************************************)
Digest(v) == EncodeToString(md5Sum(v))

\* the digests of the values the callers submit, computed once
digests ==
    {<<v, Digest(v)>> : v \in Colliding \cup {val12345, valMaxLen, wangA, wangB}}

vHashOf(v) ==
    (CHOOSE e \in digests : e[1] = IF Unspelt(v) THEN wangA ELSE v)[2]

(***************************************************************************)
(* The errors of the service.  "panic" is the run-time panic of a slice    *)
(* expression out of range, which is no error value of the service.        *)
(***************************************************************************)
nil == "nil"

ErrMaxSizeExceeded == "result exceeds maximum size"

ErrKeyNotFound == "key not found"

Panic == "panic: slice bounds out of range"

\* the empty string returned next to an error
empty == <<>>

(***************************************************************************)
(* State.                                                                  *)
(***************************************************************************)
Callers == 1..MaxCalls

VARIABLES
    m,        \* inMemService.m: the mapping, a function from keys to values
    mu,       \* inMemService.RWMutex: 0 when unlocked, else the caller that locked it
    pc,       \* pc[p]: where caller p is ("start": not called yet, "done": returned)
    arg,      \* arg[p]: the argument of p's call (v of Create, k of Lookup)
    vHash,    \* vHash[p]: Create's local vHash
    size,     \* size[p]: Create's local size
    offset,   \* offset[p]: Create's local offset
    key,      \* key[p]: Create's local k
    ret,      \* ret[p]: <<result, err>> of the return statement reached
    since,    \* since[p]: the number of calls that had returned when p's call began
    log,      \* the completed calls, in the order of their return
    logger,   \* loggingMiddleware.logger: the lines logged
    inserts,  \* instrumentingMiddleware.inserts: the counter, by label values
    lookups,  \* instrumentingMiddleware.lookups: the counter, by label values
    reached,  \* the number of calls of the methods of inMemService
    direct,   \* the mapping of a second inMemService, called without middlewares
    up,       \* whether the process of the servers is running
    via,      \* via[p]: who called the store for p ("store": p itself) and which method
    admit,    \* admit[p]: nil, or the error the limiter or the breaker of the endpoint turned p's call down with
    svc,      \* svc[p]: the <<result, err>> the method of inMemService returned to p's call, once it has
    out,      \* out[p]: the <<result, err>> instrumentingMiddleware returned to its caller, once it has
    directRet,\* directRet[p]: the <<result, err>> of p's call on the second inMemService
    response, \* response[p]: the HTTP response to p's call, once written
    reply,    \* reply[p]: what the method of grpcServer returned to p's call
    client    \* client[p]: the <<result, err>> the gRPC client returned to p, once it has

\* the state of the middlewares, of the transports and of the second service
wiring == <<logger, inserts, lookups, reached, direct, up,
            via, admit, svc, out, directRet, response, reply, client>>

vars == <<m, mu, pc, arg, vHash, size, offset, key, ret, since, log,
          logger, inserts, lookups, reached, direct, up,
          via, admit, svc, out, directRet, response, reply, client>>

\* the record of a completed call; `after` is the number of calls that had
\* returned when it was invoked
Done(method, a, r, n) ==
    [method |-> method, arg |-> a, res |-> r[1], err |-> r[2], after |-> n]

\* an error value on the side of the client: Go's nil, or an error of its
\* own with the message s, equal to none of the declared errors
clientNil == [set |-> FALSE, s |-> ""]

\* NewInMemService: nothing logged, nothing counted; no call has been made
\* through the middlewares or over a transport
InitWiring ==
    /\ logger = <<>>
    /\ inserts = <<>>
    /\ lookups = <<>>
    /\ reached = 0
    /\ direct = <<>>
    /\ up = TRUE
    /\ via = [p \in Callers |-> [by |-> "store", method |-> ""]]
    /\ admit = [p \in Callers |-> nil]
    /\ svc = [p \in Callers |-> <<>>]
    /\ out = [p \in Callers |-> <<>>]
    /\ directRet = [p \in Callers |-> <<>>]
    /\ response = [p \in Callers |-> <<>>]
    /\ reply = [p \in Callers |-> [rep |-> <<>>, err |-> nil]]
    /\ client = [p \in Callers |-> <<>>]

Init ==
    /\ InitWiring
    /\ m = <<>>
    /\ mu = 0
    /\ pc = [p \in Callers |-> "start"]
    /\ arg = [p \in Callers |-> empty]
    /\ vHash = [p \in Callers |-> empty]
    /\ size = [p \in Callers |-> 0]
    /\ offset = [p \in Callers |-> 0]
    /\ key = [p \in Callers |-> empty]
    /\ ret = [p \in Callers |-> <<empty, nil>>]
    /\ since = [p \in Callers |-> 0]
    /\ log = <<>>

(***************************************************************************)
(* Helpers of Create and Lookup.                                           *)
(***************************************************************************)
\* the callers are numbered in the order of their calls
Free(p) == pc[p] = "start" /\ \A q \in Callers : q < p => pc[q] # "start"

\* the call has returned: its arguments and locals are gone
Leave(p) ==
    /\ pc' = [pc EXCEPT ![p] = "done"]
    /\ arg' = [arg EXCEPT ![p] = empty]
    /\ vHash' = [vHash EXCEPT ![p] = empty]
    /\ size' = [size EXCEPT ![p] = 0]
    /\ offset' = [offset EXCEPT ![p] = 0]
    /\ key' = [key EXCEPT ![p] = empty]
    /\ ret' = [ret EXCEPT ![p] = <<empty, nil>>]
    /\ since' = [since EXCEPT ![p] = 0]

\* a variant of TooLarge: the comparison off by one
TooLargeOffByOne(s) == Len(s) >= maxLen

\* len(v) > maxLen
TooLarge(s) == Len(s) > maxLen

\* a variant of CanLock: no mutual exclusion
CanLockAlways(lock) == TRUE

\* s.Lock() returns only when nobody holds the lock
CanLock(lock) == lock = 0

\* a variant of NextSize: the size grows by two
NextSizeSkip(h, off, sz) == IF off + sz > Len(h) THEN sz + 2 ELSE sz

\* if offset+size > len(vHash) { size++; offset = 0 }
NextSize(h, off, sz) == IF off + sz > Len(h) THEN sz + 1 ELSE sz

NextOffset(h, off, sz) == IF off + sz > Len(h) THEN 0 ELSE off

\* a variant of Window: the slice one character short
WindowShort(h, off, sz) == SubSeq(h, off + 1, off + sz - 1)

\* vHash[offset : offset+size]
Window(h, off, sz) == SubSeq(h, off + 1, off + sz)

\* a variant of Exists: the slot is always taken to be free
ExistsNever(mp, k) == FALSE

\* oldv, exists := s.m[k] (Create)
Exists(mp, k) == k \in DOMAIN mp

\* variants of SameValue: the comparison with the stored value left out,
\* one way and the other
SameValueNever(oldv, v) == FALSE

SameValueAlways(oldv, v) == TRUE

\* if oldv == v
SameValue(oldv, v) == oldv = v

\* a variant of Found: the test of ok inverted for present keys
FoundNever(mp, k) == FALSE

\* v, ok := s.m[k] (Lookup)
Found(mp, k) == k \in DOMAIN mp

\* a variant of Store: the mapping replaced by the new entry alone
StoreAlone(mp, k, v) == [x \in {k} |-> v]

\* s.m[k] = v
Store(mp, k, v) == [x \in DOMAIN mp \cup {k} |-> IF x = k THEN v ELSE mp[x]]

(***************************************************************************)
(* Create and Lookup run alone, from call to return, on a mapping mp: the  *)
(* same statements as the actions below, with no other caller in between.  *)
(* The result is the mapping left and the pair returned.                   *)
(***************************************************************************)
\* one iteration of the loop of Create on the state st of the call: the
\* mapping, the window, and the <<key, err>> returned once the loop is left
Iterate(h, v, st) ==
    LET sz2  == NextSize(h, st.offset, st.size)
        off2 == NextOffset(h, st.offset, st.size)
        k    == Window(h, off2, sz2)
        left == [st EXCEPT !.size = sz2, !.offset = off2, !.left = TRUE]
    IN  IF off2 + sz2 > Len(h) THEN [left EXCEPT !.ret = <<empty, Panic>>]
        ELSE IF Exists(st.m, k)
             THEN IF SameValue(st.m[k], v) THEN [left EXCEPT !.ret = <<k, nil>>]
                  ELSE [st EXCEPT !.size = sz2, !.offset = off2 + 1]
             ELSE [left EXCEPT !.m = Store(st.m, k, v), !.ret = <<k, nil>>]

RECURSIVE Iterations(_, _, _, _)
\* up to n iterations, until the loop is left (the iterations are split in
\* two halves to keep the evaluation shallow)
Iterations(h, v, st, n) ==
    IF st.left \/ n = 0 THEN st
    ELSE IF n = 1 THEN Iterate(h, v, st)
    ELSE CHOOSE r \in {Iterations(h, v, half, n - (n \div 2)) :
                           half \in {Iterations(h, v, st, n \div 2)}} : TRUE

\* the loop of Create from the window (off, sz) on: the mapping left and the
\* <<key, err>> returned.  The loop is left within (len(vHash) + 1)^2
\* iterations: every iteration moves on to another window or leaves.
Probe(mp, h, v, off, sz) ==
    LET st == Iterations(h, v,
                  [m |-> mp, offset |-> off, size |-> sz, left |-> FALSE,
                   ret |-> <<empty, nil>>],
                  (Len(h) + 1) * (Len(h) + 1))
    IN  [m |-> st.m, ret |-> st.ret]

SeqCreate(mp, v) ==
    IF TooLarge(v) THEN [m |-> mp, ret |-> <<empty, ErrMaxSizeExceeded>>]
    ELSE Probe(mp, vHashOf(v), v, 0, minKeySize)

SeqLookup(mp, k) ==
    IF TooLarge(k) THEN [m |-> mp, ret |-> <<empty, ErrMaxSizeExceeded>>]
    ELSE IF Found(mp, k) THEN [m |-> mp, ret |-> <<mp[k], nil>>]
    ELSE [m |-> mp, ret |-> <<empty, ErrKeyNotFound>>]

\* the method of inMemService returns r to the middleware that called it
\* (mw.next.Create, mw.next.Lookup): its locals are gone, and the caller is
\* at the deferred function of loggingMiddleware.  The same call is made on
\* the second store.
ReturnToMiddleware(p, method, a, r) ==
    /\ pc' = [pc EXCEPT ![p] = "s_log"]
    /\ ret' = [ret EXCEPT ![p] = r]
    /\ svc' = [svc EXCEPT ![p] = <<r>>]
    /\ vHash' = [vHash EXCEPT ![p] = empty]
    /\ size' = [size EXCEPT ![p] = 0]
    /\ offset' = [offset EXCEPT ![p] = 0]
    /\ key' = [key EXCEPT ![p] = empty]
    /\ \E d \in {IF method = "Create" THEN SeqCreate(direct, a)
                  ELSE SeqLookup(direct, a)} :
          /\ direct' = d.m
          /\ directRet' = [directRet EXCEPT ![p] = <<d.ret>>]

\* the method of inMemService returns: to the caller p itself, or to the
\* middleware through which p called
Return(p, method) ==
    IF via[p].by = "store"
    THEN /\ Leave(p)
         /\ UNCHANGED wiring
    ELSE /\ ReturnToMiddleware(p, method, arg[p], ret[p])
         /\ UNCHANGED <<arg, since, logger, inserts, lookups, reached, up>>
         /\ UNCHANGED <<via, admit, out, response, reply, client>>

(***************************************************************************)
(* inMemService.Create                                                     *)
(***************************************************************************)
\* the call, the length check and the digest (lines 126-139)
CreateCall(p, v) ==
    /\ Free(p)
    /\ IF TooLarge(v)
       THEN /\ log' = Append(log, Done("Create", v, <<empty, ErrMaxSizeExceeded>>, Len(log)))
            /\ pc' = [pc EXCEPT ![p] = "done"]
            /\ UNCHANGED <<arg, vHash, since>>
       ELSE /\ arg' = [arg EXCEPT ![p] = v]
            /\ since' = [since EXCEPT ![p] = Len(log)]
            /\ vHash' = [vHash EXCEPT ![p] = vHashOf(v)]
            /\ pc' = [pc EXCEPT ![p] = "c_lock"]
            /\ UNCHANGED log
    /\ UNCHANGED <<m, mu, size, offset, key, ret>>
    /\ UNCHANGED wiring

\* s.Lock(); size := minKeySize; offset := 0 (lines 141-145)
CreateLock(p) ==
    /\ pc[p] = "c_lock"
    /\ CanLock(mu)
    /\ mu' = p
    /\ size' = [size EXCEPT ![p] = minKeySize]
    /\ offset' = [offset EXCEPT ![p] = 0]
    /\ pc' = [pc EXCEPT ![p] = "c_loop"]
    /\ UNCHANGED <<m, arg, vHash, key, ret, since, log>>
    /\ UNCHANGED wiring

\* one iteration of the loop up to the branch on `exists` (lines 146-163):
\* the window is moved, the candidate key is cut out of the digest (cutting
\* beyond the end of the digest panics) and looked up in the mapping
CreateProbe(p) ==
    /\ pc[p] = "c_loop"
    /\ LET sz  == NextSize(vHash[p], offset[p], size[p])
           off == NextOffset(vHash[p], offset[p], size[p])
           k   == Window(vHash[p], off, sz)
       IN  /\ size' = [size EXCEPT ![p] = sz]
           /\ IF off + sz > Len(vHash[p])
              THEN /\ ret' = [ret EXCEPT ![p] = <<empty, Panic>>]
                   /\ pc' = [pc EXCEPT ![p] = "c_ret"]
                   /\ offset' = [offset EXCEPT ![p] = off]
                   /\ UNCHANGED key
              ELSE /\ key' = [key EXCEPT ![p] = k]
                   /\ IF Exists(m, k)
                      THEN IF SameValue(m[k], arg[p])
                           THEN /\ ret' = [ret EXCEPT ![p] = <<k, nil>>]
                                /\ pc' = [pc EXCEPT ![p] = "c_ret"]
                                /\ offset' = [offset EXCEPT ![p] = off]
                           ELSE /\ offset' = [offset EXCEPT ![p] = off + 1]
                                /\ UNCHANGED <<ret, pc>>
                      ELSE /\ pc' = [pc EXCEPT ![p] = "c_claim"]
                           /\ offset' = [offset EXCEPT ![p] = off]
                           /\ UNCHANGED ret
    /\ UNCHANGED <<m, mu, arg, vHash, since, log>>
    /\ UNCHANGED wiring

\* found slot: s.m[k] = v; return k, nil (lines 165-167)
CreateClaim(p) ==
    /\ pc[p] = "c_claim"
    /\ m' = Store(m, key[p], arg[p])
    /\ ret' = [ret EXCEPT ![p] = <<key[p], nil>>]
    /\ pc' = [pc EXCEPT ![p] = "c_ret"]
    /\ UNCHANGED <<mu, arg, vHash, size, offset, key, since, log>>
    /\ UNCHANGED wiring

\* a variant of CreateReturn: the return to the caller without the deferred
\* s.Unlock()
CreateReturnLocked(p) ==
    /\ pc[p] = "c_ret"
    /\ log' = Append(log, Done("Create", arg[p], ret[p], since[p]))
    /\ Return(p, "Create")
    /\ UNCHANGED <<m, mu>>

\* the deferred s.Unlock() and the return to the caller (line 142)
CreateReturn(p) ==
    /\ pc[p] = "c_ret"
    /\ mu' = 0
    /\ log' = Append(log, Done("Create", arg[p], ret[p], since[p]))
    /\ Return(p, "Create")
    /\ UNCHANGED m

(***************************************************************************)
(* inMemService.Lookup                                                     *)
(***************************************************************************)
\* the call and the length check (lines 173-176)
LookupCall(p, k) ==
    /\ Free(p)
    /\ IF TooLarge(k)
       THEN /\ log' = Append(log, Done("Lookup", k, <<empty, ErrMaxSizeExceeded>>, Len(log)))
            /\ pc' = [pc EXCEPT ![p] = "done"]
            /\ UNCHANGED <<arg, since>>
       ELSE /\ arg' = [arg EXCEPT ![p] = k]
            /\ since' = [since EXCEPT ![p] = Len(log)]
            /\ pc' = [pc EXCEPT ![p] = "l_lock"]
            /\ UNCHANGED log
    /\ UNCHANGED <<m, mu, vHash, size, offset, key, ret>>
    /\ UNCHANGED wiring

\* s.Lock() (line 178)
LookupLock(p) ==
    /\ pc[p] = "l_lock"
    /\ CanLock(mu)
    /\ mu' = p
    /\ pc' = [pc EXCEPT ![p] = "l_read"]
    /\ UNCHANGED <<m, arg, vHash, size, offset, key, ret, since, log>>
    /\ UNCHANGED wiring

\* a variant of LookupRead: the entry read is taken out of the mapping
LookupReadAndForget(p) ==
    /\ pc[p] = "l_read"
    /\ ret' = [ret EXCEPT ![p] = IF Found(m, arg[p]) THEN <<m[arg[p]], nil>>
                                 ELSE <<empty, ErrKeyNotFound>>]
    /\ m' = [x \in DOMAIN m \ {arg[p]} |-> m[x]]
    /\ pc' = [pc EXCEPT ![p] = "l_ret"]
    /\ UNCHANGED <<mu, arg, vHash, size, offset, key, since, log>>
    /\ UNCHANGED wiring

\* v, ok := s.m[k] and the return statement chosen (lines 181-185)
LookupRead(p) ==
    /\ pc[p] = "l_read"
    /\ ret' = [ret EXCEPT ![p] = IF Found(m, arg[p]) THEN <<m[arg[p]], nil>>
                                 ELSE <<empty, ErrKeyNotFound>>]
    /\ pc' = [pc EXCEPT ![p] = "l_ret"]
    /\ UNCHANGED <<m, mu, arg, vHash, size, offset, key, since, log>>
    /\ UNCHANGED wiring

\* the deferred s.Unlock() and the return to the caller (line 179)
LookupReturn(p) ==
    /\ pc[p] = "l_ret"
    /\ mu' = 0
    /\ log' = Append(log, Done("Lookup", arg[p], ret[p], since[p]))
    /\ Return(p, "Lookup")
    /\ UNCHANGED m

(***************************************************************************)
(* Specification: MaxCalls concurrent calls of Create and Lookup with the   *)
(* colliding values and the keys derived from them.                        *)
(***************************************************************************)
\* the first three windows of the digest of valB: WT5q6_ is also the first
\* window of valA, T5q6_7 the first of valC, 5q6_7W the second of valC
LookupKeys == {Window(vHashOf(valB), off, minKeySize) : off \in 0..2}

Step(p) ==
    \/ CreateLock(p)
    \/ CreateProbe(p)
    \/ CreateClaim(p)
    \/ CreateReturn(p)
    \/ LookupLock(p)
    \/ LookupRead(p)
    \/ LookupReturn(p)

Next ==
    \/ \E p \in Callers, v \in Colliding : CreateCall(p, v)
    \/ \E p \in Callers, k \in LookupKeys : LookupCall(p, k)
    \/ \E p \in Callers : Step(p)

Spec == Init /\ [][Next]_vars

(***************************************************************************)
(* Specification of the length limits: the calls are made with strings of  *)
(* maxLen and maxLen + 1 bytes, and with the value and key of TestHTTP.    *)
(***************************************************************************)
LimitValues == {val12345, valMaxLen, valTooLong}

LimitKeys ==
    {Window(vHashOf(val12345), 0, minKeySize), keyMaxLen, keyTooLong}

NextLimits ==
    \/ \E p \in Callers, v \in LimitValues : CreateCall(p, v)
    \/ \E p \in Callers, k \in LimitKeys : LookupCall(p, k)
    \/ \E p \in Callers : Step(p)

SpecLimits == Init /\ [][NextLimits]_vars

(***************************************************************************)
(* Specification of progress: concurrent calls that take every return path *)
(* (a string, the key it gets, a string and a key over the limit), under a *)
(* scheduler that runs every goroutine that can take a step and a lock     *)
(* that is given in the end to every caller that waits for it (a           *)
(* sync.RWMutex hands the lock to a writer that has waited before it lets  *)
(* newcomers in).                                                          *)
(***************************************************************************)
\* a key two bytes over the limit
keyLonger == [i \in 1..(maxLen + 2) |-> "A"]

ProgressValues == {valA, valTooLong}

ProgressKeys == {Window(vHashOf(valA), 0, minKeySize), keyLonger}

NextProgress ==
    \/ \E p \in Callers, v \in ProgressValues : CreateCall(p, v)
    \/ \E p \in Callers, k \in ProgressKeys : LookupCall(p, k)
    \/ \E p \in Callers : Step(p)

Fairness ==
    \A p \in Callers :
        /\ WF_vars(Step(p))
        /\ SF_vars(CreateLock(p) \/ LookupLock(p))

SpecFair == Init /\ [][NextProgress]_vars /\ Fairness

(***************************************************************************)
(* The service as NewInMemService wires it (lines 98-106): the             *)
(* instrumenting middleware around the logging middleware around the       *)
(* store.  The callers are goroutines: a call through the middlewares runs *)
(* the actions of the store, then the deferred function of the logging     *)
(* middleware, then the statements of the instrumenting middleware, and    *)
(* other callers take their steps in between.  A step of a caller is one   *)
(* access to what the callers share (the lock and the mapping, the logger, *)
(* a counter) together with the statements of its own that follow.  A      *)
(* panic of the store passes through the middlewares: the deferred         *)
(* function of the logging middleware runs with the results still unset,   *)
(* the instrumenting middleware is left at once.                           *)
(***************************************************************************)
\* the method of inMemService has panicked in p's call
Panicked(p) == ret[p][2] = Panic

\* the call is over for p: it has returned ("done"), or a panic has left it
\* ("panic")
Over(p, at) ==
    /\ pc' = [pc EXCEPT ![p] = at]
    /\ arg' = [arg EXCEPT ![p] = empty]
    /\ ret' = [ret EXCEPT ![p] = <<empty, nil>>]
    /\ since' = [since EXCEPT ![p] = 0]

\* p calls `method` with the argument a, `by` the caller of the service or
\* by a server; e is what the limiter and the breaker of the endpoint say
\* (nil for a call of the service itself).  A call that is let through goes
\* down the middlewares into the method of inMemService, up to the length
\* check and the digest (lines 126-139, 173-176); a call that is turned down
\* goes back through the logging middleware of the endpoint.
Call(p, by, method, a, e) ==
    /\ Free(p)
    /\ p <= MaxRequests
    /\ up
    /\ via' = [via EXCEPT ![p] = [by |-> by, method |-> method]]
    /\ admit' = [admit EXCEPT ![p] = e]
    /\ arg' = [arg EXCEPT ![p] = a]
    /\ since' = [since EXCEPT ![p] = Len(log)]
    /\ IF e # nil
       THEN /\ pc' = [pc EXCEPT ![p] = "e_log"]
            /\ UNCHANGED <<reached, log, ret, vHash, size, offset, key>>
            /\ UNCHANGED <<svc, direct, directRet>>
       ELSE /\ reached' = reached + 1
            /\ IF TooLarge(a)
               THEN /\ log' = Append(log, Done(method, a, <<empty, ErrMaxSizeExceeded>>,
                                               Len(log)))
                    /\ ReturnToMiddleware(p, method, a, <<empty, ErrMaxSizeExceeded>>)
               ELSE /\ pc' = [pc EXCEPT ![p] = IF method = "Create" THEN "c_lock"
                                               ELSE "l_lock"]
                    /\ vHash' = [vHash EXCEPT ![p] = IF method = "Create" THEN vHashOf(a)
                                                     ELSE empty]
                    /\ UNCHANGED <<log, ret, size, offset, key>>
                    /\ UNCHANGED <<svc, direct, directRet>>
    /\ UNCHANGED <<m, mu, logger, inserts, lookups, up, out, response, reply, client>>

\* instrumentingMiddleware.Create (line 61), loggingMiddleware.Create (line
\* 31): the call of mw.next down to the store
ServiceCreate(p, v) == Call(p, "service", "Create", v, nil)

\* instrumentingMiddleware.Lookup (line 69), loggingMiddleware.Lookup (line
\* 38)
ServiceLookup(p, k) == Call(p, "service", "Lookup", k, nil)

\* the named results as the deferred function finds them
Results(r) == IF r[2] = Panic THEN <<empty, nil>> ELSE r

\* the line of the deferred mw.logger.Log(...) (lines 29, 36)
Log(method, a, r) ==
    IF method = "Create"
    THEN <<"method", "Create", "v", a, "k", r[1], "err", r[2]>>
    ELSE <<"method", "Lookup", "k", a, "v", r[1], "err", r[2]>>

\* instrumentingMiddleware returns r to its caller, or the panic leaves it:
\* to the caller of the service, or to the endpoint, where the deferred
\* function of its logging middleware is next
ServiceReturn(p, r) ==
    /\ out' = [out EXCEPT ![p] = IF Panicked(p) THEN <<>> ELSE <<r>>]
    /\ IF via[p].by = "service"
       THEN Over(p, IF Panicked(p) THEN "panic" ELSE "done")
       ELSE /\ pc' = [pc EXCEPT ![p] = "e_log"]
            /\ UNCHANGED <<arg, ret, since>>

\* the deferred function of loggingMiddleware.Create and Lookup (lines
\* 28-30, 35-37), and the test of err in instrumentingMiddleware (lines 62,
\* 70), after which a call without error returns
loggingMiddlewareLog(p) ==
    /\ pc[p] = "s_log"
    /\ logger' = Append(logger, Log(via[p].method, arg[p], Results(ret[p])))
    /\ IF ret[p][2] \notin {nil, Panic}
       THEN /\ pc' = [pc EXCEPT ![p] = "s_count"]
            /\ UNCHANGED <<arg, ret, since, out>>
       ELSE ServiceReturn(p, ret[p])
    /\ UNCHANGED <<m, mu, vHash, size, offset, key, log>>
    /\ UNCHANGED <<inserts, lookups, reached, direct, up>>
    /\ UNCHANGED <<via, admit, svc, directRet, response, reply, client>>

\* fmt.Sprint of a bool
Sprint(b) == IF b THEN "true" ELSE "false"

\* counter.With(labels...).Add(1): the counter of those label values grows
\* by one
AddOne(counter, labels) ==
    [l \in DOMAIN counter \cup {labels} |->
        (IF l \in DOMAIN counter THEN counter[l] ELSE 0)
            + (IF l = labels THEN 1 ELSE 0)]

\* the label values of a call
Labels(method, err) == <<"method", method, "success", Sprint(err = nil)>>

\* a variant of instrumentingMiddlewareAdd: the error is counted but not
\* returned
instrumentingMiddlewareAddNoErr(p) ==
    /\ pc[p] = "s_count"
    /\ IF via[p].method = "Create"
       THEN /\ inserts' = AddOne(inserts, Labels("Create", ret[p][2]))
            /\ UNCHANGED lookups
       ELSE /\ lookups' = AddOne(lookups, Labels("Lookup", ret[p][2]))
            /\ UNCHANGED inserts
    /\ ServiceReturn(p, <<ret[p][1], nil>>)
    /\ UNCHANGED <<m, mu, vHash, size, offset, key, log>>
    /\ UNCHANGED <<logger, reached, direct, up>>
    /\ UNCHANGED <<via, admit, svc, directRet, response, reply, client>>

\* the statements of instrumentingMiddleware.Create and Lookup under
\* `if err != nil` and the return (lines 63-65, 71-73)
instrumentingMiddlewareAdd(p) ==
    /\ pc[p] = "s_count"
    /\ IF via[p].method = "Create"
       THEN /\ inserts' = AddOne(inserts, Labels("Create", ret[p][2]))
            /\ UNCHANGED lookups
       ELSE /\ lookups' = AddOne(lookups, Labels("Lookup", ret[p][2]))
            /\ UNCHANGED inserts
    /\ ServiceReturn(p, ret[p])
    /\ UNCHANGED <<m, mu, vHash, size, offset, key, log>>
    /\ UNCHANGED <<logger, reached, direct, up>>
    /\ UNCHANGED <<via, admit, svc, directRet, response, reply, client>>

\* a step of p in the middlewares of the service
ServiceStep(p) ==
    \/ loggingMiddlewareLog(p)
    \/ instrumentingMiddlewareAdd(p)

(***************************************************************************)
(* Specification of the wired service: up to MaxRequests concurrent calls  *)
(* through the middlewares; every call is also made on a second store      *)
(* without middlewares, in the order in which the calls leave the store.   *)
(***************************************************************************)
WiredValues == Colliding \cup {valTooLong}

WiredKeys == LookupKeys \cup {keyTooLong}

NextWired ==
    \/ \E p \in Callers, v \in WiredValues : ServiceCreate(p, v)
    \/ \E p \in Callers, k \in WiredKeys : ServiceLookup(p, k)
    \/ \E p \in Callers : Step(p)
    \/ \E p \in Callers : ServiceStep(p)

SpecWired == Init /\ [][NextWired]_vars

(***************************************************************************)
(* The endpoints and the transports (shortendpoint, shorttransport): the   *)
(* service of NewInMemService behind the endpoints of shortendpoint.New,   *)
(* served over HTTP by NewHTTPHandler and over gRPC by NewGRPCServer to    *)
(* the client of NewGRPCClient.  The servers run every request in a        *)
(* goroutine of its own, and shortsvc gives the service, the endpoints and *)
(* the servers one logger.  The rate limiter and the circuit breaker       *)
(* around an endpoint let a call through or turn it down with an error of  *)
(* their own, as the time and the calls before it and beside it have it.   *)
(* The histogram in which InstrumentingMiddleware (set.go lines 36, 44)    *)
(* observes the time a call took is no part of the state.                  *)
(***************************************************************************)
\* ratelimit.ErrLimited
ErrLimited == "rate limit exceeded"

\* gobreaker.ErrOpenState
ErrOpenState == "circuit breaker is open"

\* gobreaker.ErrTooManyRequests: the breaker is half-open and another
\* request is in flight
ErrTooManyRequests == "too many requests"

\* what the limiter and the breaker of an endpoint can say of a call: nil
\* lets it through
Admissions == {nil, ErrLimited, ErrOpenState, ErrTooManyRequests}

\* an endpoint's answer when the call was turned down with err: no response
TurnedDown(err) == [response |-> <<>>, err |-> err]

\* the endpoint of MakeCreateEndpoint once s.Create has returned r:
\* CreateResponse{K: k, Err: err}, nil (line 79)
MakeCreateEndpoint(r) ==
    [response |-> <<[K |-> r[1], Err |-> r[2]]>>, err |-> nil]

\* the endpoint of MakeLookupEndpoint once s.Lookup has returned r:
\* LookupResponse{V: v, Err: err}, nil (line 88)
MakeLookupEndpoint(r) ==
    [response |-> <<[V |-> r[1], Err |-> r[2]]>>, err |-> nil]

\* the answer of Set.CreateEndpoint as New wires it: e is what the limiter
\* and the breaker said, s what the service returned, if it was called
CreateEndpoint(e, s) ==
    IF e # nil THEN TurnedDown(e) ELSE MakeCreateEndpoint(s[1])

\* the answer of Set.LookupEndpoint as New wires it
LookupEndpoint(e, s) ==
    IF e # nil THEN TurnedDown(e) ELSE MakeLookupEndpoint(s[1])

\* CreateResponse.Failed, LookupResponse.Failed
Failed(r) == r.Err

\* err.Error(): the declared errors are named by their messages
Error(err) == err

(***************************************************************************)
(* gRPC                                                                    *)
(***************************************************************************)
err2str(err) ==
    IF err = ErrKeyNotFound \/ err = ErrMaxSizeExceeded
    THEN Error(err)
    ELSE "Internal server error"

\* errors.New(s)
errorsNew(s) == [set |-> TRUE, s |-> s]

str2err(s) == IF s = "" THEN clientNil ELSE errorsNew(s)

encodeGRPCCreateResponse(resp) == [K |-> resp.K, Err |-> err2str(resp.Err)]

encodeGRPCLookupResponse(resp) == [V |-> resp.V, Err |-> err2str(resp.Err)]

decodeGRPCCreateResponse(rep) == [K |-> rep.K, Err |-> str2err(rep.Err)]

decodeGRPCLookupResponse(rep) == [V |-> rep.V, Err |-> str2err(rep.Err)]

\* grpcServer.Create once the endpoint has answered e: the encoded reply,
\* or no reply and the endpoint's error
grpcServerCreate(e) ==
    [rep |-> IF e.err # nil THEN <<>>
             ELSE <<encodeGRPCCreateResponse(e.response[1])>>,
     err |-> e.err]

\* grpcServer.Lookup once the endpoint has answered e
grpcServerLookup(e) ==
    [rep |-> IF e.err # nil THEN <<>>
             ELSE <<encodeGRPCLookupResponse(e.response[1])>>,
     err |-> e.err]

\* the error the client gets when the method of the server returned err: a
\* status of code Unknown that carries err's message
statusError(err) == [set |-> TRUE, s |-> Error(err), code |-> "Unknown"]

\* the error of the limiter or the breaker of the client
clientError(err) == [set |-> TRUE, s |-> Error(err), code |-> ""]

\* the Create endpoint of NewGRPCClient: turned down at the client, or
\* answered by the server with g
createEndpoint(c, g) ==
    IF c # nil THEN [response |-> <<>>, err |-> clientError(c)]
    ELSE IF g.err # nil THEN [response |-> <<>>, err |-> statusError(g.err)]
    ELSE [response |-> <<decodeGRPCCreateResponse(g.rep[1])>>, err |-> clientNil]

\* the Lookup endpoint of NewGRPCClient
lookupEndpoint(c, g) ==
    IF c # nil THEN [response |-> <<>>, err |-> clientError(c)]
    ELSE IF g.err # nil THEN [response |-> <<>>, err |-> statusError(g.err)]
    ELSE [response |-> <<decodeGRPCLookupResponse(g.rep[1])>>, err |-> clientNil]

\* Set.Create once s.CreateEndpoint has answered e
SetCreate(e) ==
    IF e.err # clientNil THEN <<empty, e.err>>
    ELSE <<e.response[1].K, Failed(e.response[1])>>

\* Set.Lookup once s.LookupEndpoint has answered e
SetLookup(e) ==
    IF e.err # clientNil THEN <<empty, e.err>>
    ELSE <<e.response[1].V, Failed(e.response[1])>>

(***************************************************************************)
(* HTTP                                                                    *)
(***************************************************************************)
\* http.StatusOK, the status of a response written without WriteHeader
StatusOK == 200

StatusBadRequest == 400

StatusNotFound == 404

StatusInternalServerError == 500

\* a variant of err2code: every error is an internal one
err2codeInternal(err) == StatusInternalServerError

err2code(err) ==
    IF err = ErrKeyNotFound THEN StatusNotFound
    ELSE IF err = ErrMaxSizeExceeded THEN StatusBadRequest
    ELSE StatusInternalServerError

\* the status written and the JSON object of errorWrapper
errorEncoder(err) ==
    [status |-> err2code(err), body |-> [error |-> Error(err)]]

\* json.NewEncoder(w).Encode(response) of a CreateResponse: Err is left out
EncodeCreate(resp) == [k |-> resp.K]

\* json.NewEncoder(w).Encode(response) of a LookupResponse: Err is left out
EncodeLookup(resp) == [v |-> resp.V]

\* encodeHTTPGenericResponse with the JSON object of the response
encodeHTTPGenericResponse(resp, json) ==
    IF Failed(resp) # nil THEN errorEncoder(Failed(resp))
    ELSE [status |-> StatusOK, body |-> json]

\* what the handler of POST /api writes once the endpoint has answered e
ServeCreate(e) ==
    IF e.err # nil THEN errorEncoder(e.err)
    ELSE encodeHTTPGenericResponse(e.response[1], EncodeCreate(e.response[1]))

\* what the handler of GET /api/{key} writes once the endpoint has
\* answered e
ServeLookup(e) ==
    IF e.err # nil THEN errorEncoder(e.err)
    ELSE encodeHTTPGenericResponse(e.response[1], EncodeLookup(e.response[1]))

(***************************************************************************)
(* The requests.  A request served is a call of an endpoint in a goroutine *)
(* of the server: through the limiter and the breaker into the service,    *)
(* back through the deferred function of the endpoint's logging            *)
(* middleware, through the error handler of the server when the endpoint   *)
(* returned an error, and to the answer.  The client of NewGRPCClient is   *)
(* another process: it waits on the connection while the server handles    *)
(* its call, and returns after the method of grpcServer has.  A panic of   *)
(* the store leaves the endpoint and the handler of the server without an  *)
(* answer; out of the method of grpcServer it ends the process.            *)
(***************************************************************************)
\* POST /api with the JSON object {"v": v}; a is what the limiter and the
\* breaker of the endpoint say
HTTPCreate(p, v, a) == Call(p, "HTTP", "Create", v, a)

\* GET /api/k
HTTPLookup(p, k, a) == Call(p, "HTTP", "Lookup", k, a)

\* a call of the gRPC client that no handler of the server runs: the
\* limiter or the breaker of the client turned it down and the client has
\* returned the error c, or (c = nil) the server is not running and the
\* client waits for the connection to fail
NotSent(p, method, c) ==
    /\ Free(p)
    /\ p <= MaxRequests
    /\ via' = [via EXCEPT ![p] = [by |-> "gRPC", method |-> method]]
    /\ IF c # nil
       THEN /\ client' = [client EXCEPT ![p] =
                   <<IF method = "Create" THEN SetCreate(createEndpoint(c, reply[p]))
                     ELSE SetLookup(lookupEndpoint(c, reply[p]))>>]
            /\ pc' = [pc EXCEPT ![p] = "done"]
       ELSE /\ pc' = [pc EXCEPT ![p] = "c_wait"]
            /\ UNCHANGED client
    /\ UNCHANGED <<m, mu, arg, vHash, size, offset, key, ret, since, log>>
    /\ UNCHANGED <<logger, inserts, lookups, reached, direct, up>>
    /\ UNCHANGED <<admit, svc, out, directRet, response, reply>>

\* a Create of the gRPC client; c and a are what the limiters and breakers
\* of the client and of the server say
GRPCCreate(p, v, c, a) ==
    IF c # nil \/ ~up THEN NotSent(p, "Create", c)
    ELSE Call(p, "gRPC", "Create", v, a)

\* a Lookup of the gRPC client
GRPCLookup(p, k, c, a) ==
    IF c # nil \/ ~up THEN NotSent(p, "Lookup", c)
    ELSE Call(p, "gRPC", "Lookup", k, a)

\* the endpoint has answered p's request: the HTTP handler writes the
\* response; the method of grpcServer is about to return
Answer(p) ==
    IF via[p].by = "HTTP"
    THEN /\ Over(p, "done")
         /\ response' = [response EXCEPT ![p] =
               <<IF via[p].method = "Create"
                 THEN ServeCreate(CreateEndpoint(admit[p], out[p]))
                 ELSE ServeLookup(LookupEndpoint(admit[p], out[p]))>>]
    ELSE /\ pc' = [pc EXCEPT ![p] = "g_ret"]
         /\ UNCHANGED <<arg, ret, since, response>>

\* a panic leaves the endpoint (set.go lines 78, 87: nothing recovers it)
\* and the handler of the server.  net/http recovers it in the goroutine of
\* the connection, and no response is written; in a gRPC server it travels
\* on, out of the method of grpcServer.
Unrecovered(p) ==
    /\ IF via[p].by = "HTTP"
       THEN Over(p, "panic")
       ELSE /\ pc' = [pc EXCEPT ![p] = "g_ret"]
            /\ UNCHANGED <<arg, ret, since>>
    /\ UNCHANGED response

\* the deferred logger.Log of the endpoint's LoggingMiddleware (set.go
\* lines 35, 43): the logger carries the method, the line the error the
\* endpoint returned (none when a panic leaves it) and the time taken, which
\* is left out
LoggingMiddleware(p) ==
    /\ pc[p] = "e_log"
    /\ logger' = Append(logger, <<"method", via[p].method, "transport_error", admit[p]>>)
    /\ IF admit[p] # nil
       THEN /\ pc' = [pc EXCEPT ![p] = "t_err"]
            /\ UNCHANGED <<arg, ret, since, response>>
       ELSE IF Panicked(p) THEN Unrecovered(p)
       ELSE Answer(p)
    /\ UNCHANGED <<m, mu, vHash, size, offset, key, log>>
    /\ UNCHANGED <<inserts, lookups, reached, direct, up>>
    /\ UNCHANGED <<via, admit, svc, out, directRet, reply, client>>

\* the error handler of the server when the endpoint returned an error:
\* ServerErrorLogger(logger) makes it logger.Log("err", err) (grpc.go lines
\* 33, 228); then the answer
ServerErrorLogger(p) ==
    /\ pc[p] = "t_err"
    /\ logger' = Append(logger, <<"err", admit[p]>>)
    /\ Answer(p)
    /\ UNCHANGED <<m, mu, vHash, size, offset, key, log>>
    /\ UNCHANGED <<inserts, lookups, reached, direct, up>>
    /\ UNCHANGED <<via, admit, svc, out, directRet, reply, client>>

\* a step of p in an endpoint or a server
TransportStep(p) ==
    \/ LoggingMiddleware(p)
    \/ ServerErrorLogger(p)

\* the process of the servers ends: the goroutines of the requests in it
\* are gone (those of HTTP requests without a response), and the gRPC
\* clients whose calls they ran wait on a connection that fails; what the
\* process held is left as it was
Exit ==
    /\ up' = FALSE
    /\ pc' = [q \in Callers |->
                 IF pc[q] \in {"start", "done", "panic", "c_wait"} THEN pc[q]
                 ELSE IF via[q].by = "gRPC" THEN "c_wait"
                 ELSE "exit"]
    /\ UNCHANGED <<arg, ret, since, reply>>

\* the method of grpcServer is left (grpc.go lines 52-66): it returns the
\* encoded reply, or no reply and the endpoint's error, for the server to
\* send to the client; or the panic of the store leaves it, which a gRPC
\* server does not recover
grpcServerReturn(p) ==
    /\ pc[p] = "g_ret"
    /\ IF Panicked(p)
       THEN Exit
       ELSE /\ reply' = [reply EXCEPT ![p] =
                   IF via[p].method = "Create"
                   THEN grpcServerCreate(CreateEndpoint(admit[p], out[p]))
                   ELSE grpcServerLookup(LookupEndpoint(admit[p], out[p]))]
            /\ pc' = [pc EXCEPT ![p] = "c_wait"]
            /\ arg' = [arg EXCEPT ![p] = empty]
            /\ ret' = [ret EXCEPT ![p] = <<empty, nil>>]
            /\ since' = [since EXCEPT ![p] = 0]
            /\ UNCHANGED up
    /\ UNCHANGED <<m, mu, vHash, size, offset, key, log>>
    /\ UNCHANGED <<logger, inserts, lookups, reached, direct>>
    /\ UNCHANGED <<via, admit, svc, out, directRet, response, client>>

\* the method of grpcServer has returned to p's call
Replied(p) == reply[p].rep # <<>> \/ reply[p].err # nil

\* the error of a call whose connection failed: a status of code
\* Unavailable (its message, which tells how the connection failed, is
\* stood for by one string)
Unavailable == [set |-> TRUE, s |-> "transport is closing", code |-> "Unavailable"]

\* what the client can get for p's call: what the method of the server
\* returned, or, the process of the server having ended, the failure of
\* the connection (also when the method had returned and the reply was not
\* sent yet)
Received(p) ==
    (IF Replied(p)
     THEN {IF via[p].method = "Create" THEN SetCreate(createEndpoint(nil, reply[p]))
           ELSE SetLookup(lookupEndpoint(nil, reply[p]))}
     ELSE {})
        \cup (IF up THEN {} ELSE {<<empty, Unavailable>>})

\* the client endpoint and Set.Create or Set.Lookup return to the caller of
\* the client (grpc.go lines 78-110, set.go lines 54-72)
ClientReturn(p) ==
    /\ pc[p] = "c_wait"
    /\ \E r \in Received(p) : client' = [client EXCEPT ![p] = <<r>>]
    /\ pc' = [pc EXCEPT ![p] = "done"]
    /\ UNCHANGED <<m, mu, arg, vHash, size, offset, key, ret, since, log>>
    /\ UNCHANGED <<logger, inserts, lookups, reached, direct, up>>
    /\ UNCHANGED <<via, admit, svc, out, directRet, response, reply>>

\* a step of p's call between the gRPC server and its client
GRPCStep(p) ==
    \/ grpcServerReturn(p)
    \/ ClientReturn(p)

(***************************************************************************)
(* Specifications of the transports: up to MaxRequests concurrent requests *)
(* over HTTP, and up to MaxRequests concurrent calls of the gRPC client.   *)
(***************************************************************************)
TransportValues == {valA, valTooLong}

TransportKeys == {Window(vHashOf(valA), 0, minKeySize)}

NextHTTP ==
    \/ \E p \in Callers, v \in TransportValues, a \in Admissions : HTTPCreate(p, v, a)
    \/ \E p \in Callers, k \in TransportKeys, a \in Admissions : HTTPLookup(p, k, a)
    \/ \E p \in Callers : Step(p)
    \/ \E p \in Callers : ServiceStep(p)
    \/ \E p \in Callers : TransportStep(p)

SpecHTTP == Init /\ [][NextHTTP]_vars

NextGRPC ==
    \/ \E p \in Callers, v \in TransportValues, c \in Admissions, a \in Admissions :
          GRPCCreate(p, v, c, a)
    \/ \E p \in Callers, k \in TransportKeys, c \in Admissions, a \in Admissions :
          GRPCLookup(p, k, c, a)
    \/ \E p \in Callers : Step(p)
    \/ \E p \in Callers : ServiceStep(p)
    \/ \E p \in Callers : TransportStep(p)
    \/ \E p \in Callers : GRPCStep(p)

SpecGRPC == Init /\ [][NextGRPC]_vars

(***************************************************************************)
(* Specification of the long probes: the calls are made on a store that    *)
(* already holds strings with one MD5 sum, each under the window its       *)
(* Create found free, so that the loop of Create runs through the offsets  *)
(* of a size, through the sizes, and to the end of the digest.             *)
(***************************************************************************)
\* len(vHash)
DigestLen == Len(vHashOf(wangA))

\* the windows of one size, and of the sizes from minKeySize to sz
WindowsOfSize(sz) == DigestLen - sz + 1

RECURSIVE WindowsUpTo(_)
WindowsUpTo(sz) ==
    IF sz < minKeySize THEN 0 ELSE WindowsUpTo(sz - 1) + WindowsOfSize(sz)

AllWindows == WindowsUpTo(DigestLen)

RECURSIVE CreateAll(_, _, _)
\* the mapping mp after Create(SameSum(lo)), ..., Create(SameSum(hi)), made
\* one after the other (the calls are split in two halves to keep the
\* evaluation shallow)
CreateAll(mp, lo, hi) ==
    IF lo > hi THEN mp
    ELSE IF lo = hi THEN SeqCreate(mp, SameSum(lo)).m
    ELSE LET mid == (lo + hi) \div 2
         IN  CHOOSE r \in {CreateAll(half, mid + 1, hi) :
                               half \in {CreateAll(mp, lo, mid)}} : TRUE

\* the mapping of a store after Create(SameSum(1)), ..., Create(SameSum(n))
Filled(n) == CreateAll(<<>>, 1, n)

\* how many strings the store holds at the start: all windows of the first
\* size are taken, or all windows of all sizes but one, or all
Stored == {WindowsOfSize(minKeySize), AllWindows - 1, AllWindows}

InitExhaust ==
    /\ InitWiring
    /\ \E n \in Stored : m = Filled(n)
    /\ mu = 0
    /\ pc = [p \in Callers |-> "start"]
    /\ arg = [p \in Callers |-> empty]
    /\ vHash = [p \in Callers |-> empty]
    /\ size = [p \in Callers |-> 0]
    /\ offset = [p \in Callers |-> 0]
    /\ key = [p \in Callers |-> empty]
    /\ ret = [p \in Callers |-> <<empty, nil>>]
    /\ since = [p \in Callers |-> 0]
    /\ log = <<>>

\* a string with the same MD5 sum that the store does not hold yet
ExhaustValues == {SameSum(AllWindows + 1)}

\* the whole digest as a key
ExhaustKeys == {vHashOf(wangA)}

NextExhaust ==
    \/ \E p \in Callers, v \in ExhaustValues : CreateCall(p, v)
    \/ \E p \in Callers, k \in ExhaustKeys : LookupCall(p, k)
    \/ \E p \in Callers : Step(p)

SpecExhaust == InitExhaust /\ [][NextExhaust]_vars

(***************************************************************************)
(* Specification of the exhausted digest: the store holds every window of  *)
(* the digest but one, or every window, under other strings, and the calls *)
(* are made with two further strings of that MD5 sum.                      *)
(***************************************************************************)
InitFull ==
    /\ InitExhaust
    /\ m \in {Filled(AllWindows - 1), Filled(AllWindows)}

\* two strings with the same MD5 sum that the store does not hold
FullValues == {SameSum(AllWindows + 1), SameSum(AllWindows + 2)}

NextFull ==
    \/ \E p \in Callers, v \in FullValues : CreateCall(p, v)
    \/ \E p \in Callers, k \in ExhaustKeys : LookupCall(p, k)
    \/ \E p \in Callers : Step(p)

SpecFull == InitFull /\ [][NextFull]_vars

(***************************************************************************)
(* Vocabulary of the properties: the completed calls.                      *)
(***************************************************************************)
Calls == DOMAIN log

Creates == {i \in Calls : log[i].method = "Create"}

Lookups == {i \in Calls : log[i].method = "Lookup"}

Succeeded(i) == log[i].err = nil

\* call i had returned when call j was made
Before(i, j) == log[j].after >= i

\* neither call had returned when the other was made
Concurrent(i, j) == i # j /\ ~Before(i, j) /\ ~Before(j, i)

\* the keys under which the mapping holds v
KeysOf(v) == {k \in DOMAIN m : m[k] = v}

\* a caller is between s.Lock() and s.Unlock()
InCriticalSection(p) == pc[p] \in {"c_loop", "c_claim", "c_ret", "l_read", "l_ret"}

RECURSIVE Replay(_)
\* the first n calls of the log made one after the other on an empty
\* mapping: the mapping left, and whether each returned what the log says
Replay(n) ==
    IF n = 0 THEN [m |-> <<>>, same |-> TRUE]
    ELSE LET prev == Replay(n - 1)
             c    == log[n]
             r    == IF c.method = "Create" THEN SeqCreate(prev.m, c.arg)
                     ELSE SeqLookup(prev.m, c.arg)
         IN  [m |-> r.m, same |-> prev.same /\ r.ret = <<c.res, c.err>>]

(***************************************************************************)
(* Properties.                                                             *)
(***************************************************************************)
\* C1 (idempotence): once Create(v) has returned the key k, every Create(v)
\* made later, whatever calls were made in between, returns k as well; the
\* later call never writes to the mapping, and the mapping holds v under k
\* and under no other key.
Idempotence ==
    /\ \A i, j \in Creates :
          (Before(i, j) /\ log[i].arg = log[j].arg /\ Succeeded(i))
              => (Succeeded(j) /\ log[j].res = log[i].res)
    /\ \A p \in Callers :
          pc[p] = "c_claim"
              => ~\E i \in Creates :
                    i <= since[p] /\ Succeeded(i) /\ log[i].arg = arg[p]
    /\ \A i \in Creates : Succeeded(i) => KeysOf(log[i].arg) = {log[i].res}

\* Create(v), then a Create of a colliding value, then Create(v) again, one
\* after the other, has returned the same key twice
IdempotenceWitness ==
    \E i, l, j \in Creates :
        /\ Before(i, l) /\ Before(l, j)
        /\ log[i].arg = log[j].arg /\ log[l].arg # log[i].arg
        /\ Succeeded(i) /\ Succeeded(l) /\ Succeeded(j)
        /\ log[l].res = Window(vHashOf(log[l].arg), 1, minKeySize)
        /\ log[j].res = log[i].res

\* C2 (round trip): Create(v) with len(v) <= maxLen returns a key k and no
\* error, and every Lookup(k) made after that Create returned gives v and
\* no error.
RoundTrip ==
    /\ \A i \in Creates : ~TooLarge(log[i].arg) => Succeeded(i)
    /\ \A i \in Creates, j \in Lookups :
          (Succeeded(i) /\ Before(i, j) /\ log[j].arg = log[i].res)
              => (Succeeded(j) /\ log[j].res = log[i].arg)

\* C3 (collision safety): the keys returned by Create for two different
\* values are different, also when the digests of the values share windows.
CollisionSafety ==
    \A i, j \in Creates :
        (Succeeded(i) /\ Succeeded(j) /\ log[i].arg # log[j].arg)
            => log[i].res # log[j].res

\* three values with overlapping windows have keys, one of them the third
\* window of its digest because the first two were taken
CollisionSafetyWitness ==
    /\ {log[i].arg : i \in {c \in Creates : Succeeded(c)}} = Colliding
    /\ \E i \in Creates :
          Succeeded(i) /\ log[i].res = Window(vHashOf(log[i].arg), 2, minKeySize)

\* C4 (concurrent distinct creates): of any Create calls that ran
\* concurrently with pairwise different values of at most maxLen bytes, each
\* returned a key and no error, and the keys are pairwise different.
ConcurrentDistinct ==
    \A S \in SUBSET Creates :
        (/\ \A i \in S : ~TooLarge(log[i].arg)
         /\ \A i, j \in S : i # j => (Concurrent(i, j) /\ log[i].arg # log[j].arg))
            => /\ \A i \in S : Succeeded(i)
               /\ \A i, j \in S : i # j => log[i].res # log[j].res

\* C5 (concurrent identical creates): Create calls that ran concurrently
\* with the same value all returned the same key and no error, and the
\* mapping holds that value under exactly one key.
ConcurrentIdentical ==
    /\ \A i, j \in Creates :
          (Concurrent(i, j) /\ log[i].arg = log[j].arg /\ ~TooLarge(log[i].arg))
              => (Succeeded(i) /\ Succeeded(j) /\ log[i].res = log[j].res)
    /\ \A i \in Creates : Succeeded(i) => Cardinality(KeysOf(log[i].arg)) = 1

\* C6 (mutual exclusion): a caller that is anywhere from the first read of
\* the mapping to the deferred Unlock, in Create or in Lookup, is the one
\* holder of the lock, and no two callers are there at once.
MutualExclusion ==
    /\ \A p \in Callers : InCriticalSection(p) => mu = p
    /\ \A p, q \in Callers :
          (InCriticalSection(p) /\ InCriticalSection(q)) => p = q

\* a caller is about to write to the mapping while a Create and a Lookup
\* wait for the lock
MutualExclusionWitness ==
    \E p, q, r \in Callers :
        pc[p] = "c_claim" /\ pc[q] = "c_lock" /\ pc[r] = "l_lock"

\* C7 (linearizability): the calls made one after the other in the order of
\* their returns give what they gave concurrently, and that order keeps
\* every call after the calls that had returned when it was made; a
\* Lookup(k) concurrent with the Create(v) that returned k gave KeyNotFound
\* or v; once a Lookup(k) has returned a value, every Lookup(k) made later
\* returns that value.
Linearizable ==
    /\ Replay(Len(log)).same
    /\ \A i, j \in Calls : Before(i, j) => i < j
    /\ \A i \in Creates, j \in Lookups :
          (Succeeded(i) /\ Concurrent(i, j) /\ log[j].arg = log[i].res)
              => \/ log[j].err = ErrKeyNotFound
                 \/ Succeeded(j) /\ log[j].res = log[i].arg
    /\ \A i, j \in Lookups :
          (Succeeded(i) /\ Before(i, j) /\ log[j].arg = log[i].arg)
              => (Succeeded(j) /\ log[j].res = log[i].res)

\* a Lookup(k) concurrent with the Create that claims k returned KeyNotFound,
\* and a Lookup(k) made after that Create returned gave the value
LinearizableWitness ==
    \E i, l \in Lookups, j \in Creates :
        /\ Concurrent(i, j) /\ Before(j, l)
        /\ log[i].arg = log[j].res /\ log[l].arg = log[j].res
        /\ log[i].err = ErrKeyNotFound
        /\ Succeeded(j) /\ Succeeded(l) /\ log[l].res = log[j].arg

\* C8 (bounds): a call returns ErrMaxSizeExceeded exactly when its argument
\* is longer than maxLen (an argument of maxLen is not rejected), and the
\* step of a rejected call changes neither the mapping nor the lock.
Rejected(i) == log[i].err = ErrMaxSizeExceeded

Bounds ==
    /\ [](\A i \in Calls : Rejected(i) <=> Len(log[i].arg) > maxLen)
    /\ [][(Len(log') = Len(log) + 1 /\ log'[Len(log')].err = ErrMaxSizeExceeded)
              => (m' = m /\ mu' = mu)]_vars

\* a value of maxLen bytes was stored, a key of maxLen characters was looked
\* up and not rejected, and a longer argument was rejected while the mapping
\* held an entry
BoundsWitness ==
    /\ \E i \in Creates : Len(log[i].arg) = maxLen /\ Succeeded(i)
    /\ \E i \in Lookups : Len(log[i].arg) = maxLen /\ log[i].err = ErrKeyNotFound
    /\ \E i \in Calls : Len(log[i].arg) = maxLen + 1 /\ Rejected(i) /\ log[i].after > 0
    /\ DOMAIN m # {}

\* C9 (not found): a Lookup(k) with len(k) <= maxLen returns ErrKeyNotFound
\* exactly when no Create that took effect before it returned k (the calls
\* take effect in the order of their returns: the order of the log).
NotFound ==
    \A j \in Lookups :
        ~TooLarge(log[j].arg)
            => (log[j].err = ErrKeyNotFound
                   <=> ~\E i \in Creates :
                          i < j /\ Succeeded(i) /\ log[i].res = log[j].arg)

\* a key was not found before the Create that returns it and found after it
NotFoundWitness ==
    \E j, l \in Lookups, i \in Creates :
        /\ j < i /\ i < l
        /\ log[j].arg = log[i].res /\ log[l].arg = log[i].res
        /\ log[j].err = ErrKeyNotFound /\ Succeeded(i) /\ Succeeded(l)

\* C10 (entries are immutable and never removed): every step keeps every
\* key of the mapping, with its value.
EntriesImmutable ==
    [][\A k \in DOMAIN m : k \in DOMAIN m' /\ m'[k] = m[k]]_vars

\* the mapping has grown to three entries
EntriesImmutableWitness == Cardinality(DOMAIN m) = 3

\* the step is taken by caller p
Moved(p) ==
    \/ pc'[p] # pc[p]
    \/ size'[p] # size[p]
    \/ offset'[p] # offset[p]

\* the callers that have left the loop of Create with a key
Returning == {p \in Callers : pc[p] = "c_ret" /\ ret[p][2] = nil}

\* C11 (Create's effect on the mapping): the keys of the mapping are the
\* keys the Create calls have returned, each mapped to the value submitted,
\* so a call adds at most the key it returns and a call that returns an
\* error adds nothing; the one step of Create that changes the mapping adds
\* one absent key, mapped to the value of the call, and keeps every entry;
\* the steps that return an error or an existing key change nothing.
CreateEffect ==
    /\ [](/\ DOMAIN m = {log[i].res : i \in {c \in Creates : Succeeded(c)}}
                            \cup {ret[p][1] : p \in Returning}
          /\ \A i \in Creates : Succeeded(i) => m[log[i].res] = log[i].arg)
    /\ [][\A p \in Callers :
             (Moved(p) /\ (m' # m \/ pc[p] = "c_claim"))
                 => /\ pc[p] = "c_claim" /\ pc'[p] = "c_ret"
                    /\ key[p] \notin DOMAIN m
                    /\ DOMAIN m' = DOMAIN m \cup {key[p]}
                    /\ m'[key[p]] = arg[p]
                    /\ \A k \in DOMAIN m : m'[k] = m[k]
                    /\ ret'[p] = <<key[p], nil>>]_vars
    /\ [][\A p \in Callers :
             (pc[p] = "c_loop" /\ pc'[p] = "c_ret") => m' = m]_vars
    /\ [][(Len(log') = Len(log) + 1 /\ log'[Len(log')].method = "Create")
             => m' = m]_vars

\* a Create has added an entry, another Create of the same value has
\* returned the existing key, a Create has been rejected, and the mapping
\* holds the one entry
CreateEffectWitness ==
    /\ \E i, j \in Creates :
          /\ i < j /\ log[i].arg = log[j].arg
          /\ Succeeded(i) /\ Succeeded(j) /\ log[i].res = log[j].res
    /\ \E i \in Creates : log[i].err = ErrMaxSizeExceeded /\ log[i].after > 0
    /\ Cardinality(DOMAIN m) = 1

\* C12 (Lookup has no side effects): no step of a Lookup, from the call to
\* the return of a value, of ErrKeyNotFound or of ErrMaxSizeExceeded,
\* changes the mapping.
LookupPure ==
    [][\A p \in Callers :
          (/\ Moved(p)
           /\ \/ pc[p] \in {"l_lock", "l_read", "l_ret"}
              \/ pc'[p] = "l_lock"
              \/ Len(log') = Len(log) + 1 /\ log'[Len(log')].method = "Lookup")
              => m' = m]_vars

\* with an entry in the mapping, one Lookup has returned its value and
\* another has returned ErrKeyNotFound, and the entry is still there
LookupPureWitness ==
    \E c \in Creates, i, j \in Lookups :
        /\ Succeeded(c) /\ c < i /\ c < j
        /\ log[i].arg = log[c].res /\ Succeeded(i) /\ log[i].res = log[c].arg
        /\ log[j].err = ErrKeyNotFound
        /\ DOMAIN m = {log[c].res} /\ m[log[c].res] = log[c].arg

\* the sz characters of the digest h that follow its first off characters
Substring(h, off, sz) == [i \in 1..sz |-> h[off + i]]

\* the windows of a digest, as <<offset, size>>, and their order in the
\* loop of Create: by size, and by offset within a size
Positions ==
    {w \in (0..DigestLen) \X (minKeySize..DigestLen) : w[1] + w[2] <= DigestLen}

Earlier(w, off, sz) == w[2] < sz \/ (w[2] = sz /\ w[1] < off)

\* the window is held by a value other than v
TakenByOther(mp, h, v, w) ==
    LET k == Substring(h, w[1], w[2]) IN k \in DOMAIN mp /\ mp[k] # v

\* C13 (termination of the probe loop): the window size of a Create never
\* exceeds the length of the digest, and the loop is left with a key.
ProbeTerminates ==
    \A p \in Callers :
        /\ size[p] <= DigestLen
        /\ pc[p] = "c_ret" => (ret[p][2] = nil /\ ret[p][1] # empty)

\* C17 (probe order): the key of a Create that leaves the loop is the
\* window at its offset and size, free or held by its value, and every
\* window earlier in the order (smaller size, or same size and smaller
\* offset) is held by another value.
ProbeOrder ==
    \A p \in Callers :
        (pc[p] = "c_claim" \/ (pc[p] = "c_ret" /\ ret[p][2] = nil))
            => /\ key[p] = Substring(vHash[p], offset[p], size[p])
               /\ <<offset[p], size[p]>> \in Positions
               /\ pc[p] = "c_claim" => key[p] \notin DOMAIN m
               /\ pc[p] = "c_ret" => (ret[p][1] = key[p] /\ m[key[p]] = arg[p])
               /\ \A w \in Positions :
                     Earlier(w, offset[p], size[p])
                         => TakenByOther(m, vHash[p], arg[p], w)

\* a Create on a store in which only the longest window was free has
\* returned the whole digest
ProbeOrderWitness ==
    \E i \in Creates :
        /\ Succeeded(i) /\ log[i].res = vHashOf(log[i].arg)
        /\ Cardinality(DOMAIN m) = AllWindows

\* C18 (probe exhaustion is reported as an error): a Create that finds
\* every window of its digest held by other values leaves the loop with an
\* error of its own (not nil, not ErrMaxSizeExceeded, not ErrKeyNotFound,
\* not a panic), and has not moved the window beyond the end of the digest.
ExhaustionReported ==
    \A p \in Callers :
        (/\ pc[p] = "c_ret"
         /\ \A w \in Positions : TakenByOther(m, vHash[p], arg[p], w))
            => /\ ret[p][2] \notin {nil, ErrMaxSizeExceeded, ErrKeyNotFound, Panic}
               /\ offset[p] + size[p] <= DigestLen

RECURSIVE ReplayCreates(_)
\* the Create calls among the first n calls of the log, made one after the
\* other on a second, empty store: the mapping left, and whether each
\* returned what the log says
ReplayCreates(n) ==
    IF n = 0 THEN [m |-> <<>>, same |-> TRUE]
    ELSE LET prev == ReplayCreates(n - 1)
             c    == log[n]
             r    == SeqCreate(prev.m, c.arg)
         IN  IF c.method = "Create"
             THEN [m |-> r.m, same |-> prev.same /\ r.ret = <<c.res, c.err>>]
             ELSE prev

\* C14 (deterministic replay): the Create calls of the log, made in the
\* same order on a second, empty store, return call by call the keys they
\* returned on the first, and leave the mapping of the first; two Create
\* calls of one value that met the same mapping returned the same key.
DeterministicReplay ==
    /\ LET second == ReplayCreates(Len(log))
       IN  /\ second.same
           /\ (\A p \in Callers : pc[p] # "c_ret") => second.m = m
    /\ \A i, j \in Creates :
          (/\ i < j
           /\ log[i].arg = log[j].arg
           /\ ReplayCreates(i - 1).m = ReplayCreates(j - 1).m)
              => (log[i].res = log[j].res /\ log[i].err = log[j].err)

\* two concurrent Create calls of colliding values and a Lookup have
\* returned, one of the keys found after a collision, and the store holds
\* both entries
DeterministicReplayWitness ==
    /\ mu = 0
    /\ Cardinality(DOMAIN m) = 2
    /\ \E i, j \in Creates, l \in Lookups :
          /\ Concurrent(i, j) /\ l < j
          /\ Succeeded(i) /\ Succeeded(j) /\ Succeeded(l)
          /\ log[j].res # Window(vHashOf(log[j].arg), 0, minKeySize)

\* no call through the middlewares is in progress
Quiet == \A p \in Callers : pc[p] \in {"start", "done"}

\* the line the logging middleware of the service wrote for a Create of v
\* that returned k
CreatedLine(v, k) == <<"method", "Create", "v", v, "k", k, "err", nil>>

\* C15 (the middlewares are transparent): the store has been called once
\* for each call made through the middlewares; every call that has returned
\* has returned the pair the store returned to it, which is the pair a store
\* called directly returns; and whenever the lock is free the mapping is the
\* mapping of that store.
Transparent ==
    /\ reached = Cardinality({p \in Callers : pc[p] # "start"})
    /\ mu = 0 => m = direct
    /\ \A p \in Callers :
          /\ Len(svc[p]) = 1 => svc[p] = directRet[p]
          /\ pc[p] = "done" => Len(out[p]) = 1 /\ out[p] = svc[p]

\* through the middlewares two concurrent Creates of colliding values have
\* returned, the second with a key found after a collision, and the line of
\* the second was logged before the line of the first
TransparentWitness ==
    /\ Quiet
    /\ \E i, j \in Creates :
          /\ i < j /\ Concurrent(i, j)
          /\ Succeeded(i) /\ Succeeded(j)
          /\ log[j].res # Window(vHashOf(log[j].arg), 0, minKeySize)
          /\ \E a, b \in DOMAIN logger :
                /\ a < b
                /\ logger[a] = CreatedLine(log[j].arg, log[j].res)
                /\ logger[b] = CreatedLine(log[i].arg, log[i].res)

\* the value of a counter for given label values
Value(counter, labels) ==
    IF labels \in DOMAIN counter THEN counter[labels] ELSE 0

\* C16 (instrumentation counts calls): when no call is in progress, the
\* inserts counter has grown by one for every Create call and the lookups
\* counter by one for every Lookup call, under the label success=true for
\* the calls that returned no error and success=false for the others.
InstrumentationCounts ==
    Quiet =>
        \A ok \in BOOLEAN :
            /\ Value(inserts, <<"method", "Create", "success", Sprint(ok)>>)
                  = Cardinality({i \in Creates : Succeeded(i) = ok})
            /\ Value(lookups, <<"method", "Lookup", "success", Sprint(ok)>>)
                  = Cardinality({i \in Lookups : Succeeded(i) = ok})

\* k is a run of consecutive characters of the digest h
WindowOf(k, h) ==
    \E off \in 0..(Len(h) - Len(k)) : k = Substring(h, off, Len(k))

\* C19 (key shape): every key of the mapping is a run of consecutive
\* characters of the digest of its value, of at least minKeySize characters
\* and at most the length of the digest, and therefore not too long for
\* Lookup.
KeyShape ==
    \A k \in DOMAIN m :
        /\ minKeySize <= Len(k) /\ Len(k) <= DigestLen
        /\ WindowOf(k, vHashOf(m[k]))
        /\ ~TooLarge(k)

\* the store holds three values, one of them under the third window of its
\* digest
KeyShapeWitness ==
    /\ {m[k] : k \in DOMAIN m} = Colliding
    /\ \E k \in DOMAIN m : k = Substring(vHashOf(m[k]), 2, minKeySize)

\* C20 (one key per value): no two keys of the mapping hold the same value,
\* and the mapping has as many entries as there are values for which a
\* Create has left the loop with a key.
Injective ==
    /\ \A k1, k2 \in DOMAIN m : m[k1] = m[k2] => k1 = k2
    /\ Cardinality(DOMAIN m)
          = Cardinality({log[i].arg : i \in {c \in Creates : Succeeded(c)}}
                            \cup {arg[p] : p \in Returning})

\* a value stored after a collision has been created a second time, and the
\* store holds two entries for the two values
InjectiveWitness ==
    /\ Cardinality(DOMAIN m) = 2
    /\ Len(log) = MaxCalls
    /\ \E i, j \in Creates :
          /\ i < j /\ log[i].arg = log[j].arg
          /\ Succeeded(i) /\ Succeeded(j)
          /\ log[j].res # Window(vHashOf(log[j].arg), 0, minKeySize)

\* p's call went all the way from the gRPC client to the service, and the
\* client has returned
OverGRPC(p) == via[p].by = "gRPC" /\ pc[p] = "done" /\ Len(svc[p]) = 1

\* C21 (gRPC error round trip): when a call has gone from the gRPC client
\* through the gRPC server and the endpoint to the service, the client
\* returns a nil error exactly when the service returned a nil error; the
\* err field of the reply is empty for a nil error, the message of
\* ErrKeyNotFound or ErrMaxSizeExceeded for these two, and "Internal server
\* error" for any other error.
GRPCErrorRoundTrip ==
    \A p \in Callers :
        OverGRPC(p) =>
            /\ client[p][1][2] = clientNil <=> svc[p][1][2] = nil
            /\ svc[p][1][2] = nil => reply[p].rep[1].Err = ""
            /\ svc[p][1][2] \in {ErrKeyNotFound, ErrMaxSizeExceeded} =>
                   reply[p].rep[1].Err = svc[p][1][2]
            /\ svc[p][1][2] \notin {nil, ErrKeyNotFound, ErrMaxSizeExceeded} =>
                   reply[p].rep[1].Err = "Internal server error"

\* p's request over HTTP has been answered
OverHTTP(p) == via[p].by = "HTTP" /\ pc[p] = "done"

\* the JSON object of the result the service returned to p's call
Object(p) ==
    IF via[p].method = "Create" THEN [k |-> svc[p][1][1]] ELSE [v |-> svc[p][1][1]]

\* C22 (HTTP status mapping): a call served over HTTP that the service
\* answered with a nil error is answered with status 200 and the JSON object
\* of the result, with ErrKeyNotFound with status 404, with
\* ErrMaxSizeExceeded with status 400, and a call that ended with any other
\* error with status 500; every error is answered with the JSON object of
\* the error and never with the object of a result.
HTTPStatusMapping ==
    \A p \in Callers :
        OverHTTP(p) =>
            /\ Len(response[p]) = 1
            /\ IF Len(svc[p]) = 1
               THEN /\ svc[p][1][2] = nil =>
                         response[p][1] = [status |-> StatusOK, body |-> Object(p)]
                    /\ svc[p][1][2] = ErrKeyNotFound =>
                         response[p][1] = [status |-> StatusNotFound,
                                           body |-> [error |-> ErrKeyNotFound]]
                    /\ svc[p][1][2] = ErrMaxSizeExceeded =>
                         response[p][1] = [status |-> StatusBadRequest,
                                           body |-> [error |-> ErrMaxSizeExceeded]]
                    /\ svc[p][1][2] \notin {nil, ErrKeyNotFound, ErrMaxSizeExceeded} =>
                         /\ response[p][1].status = StatusInternalServerError
                         /\ DOMAIN response[p][1].body = {"error"}
               ELSE /\ response[p][1].status = StatusInternalServerError
                    /\ DOMAIN response[p][1].body = {"error"}
                    /\ response[p][1].body.error
                          \in {ErrLimited, ErrOpenState, ErrTooManyRequests}

\* a Lookup over HTTP of a key the store did not hold has been answered
\* with status 404, and a Create over HTTP that ran beside it and stored its
\* string under that key with status 200
HTTPStatusMappingWitness ==
    \E p, q \in Callers :
        /\ OverHTTP(p) /\ OverHTTP(q)
        /\ via[p].method = "Lookup" /\ via[q].method = "Create"
        /\ svc[p] = <<(<<empty, ErrKeyNotFound>>)>>
        /\ response[p][1].status = StatusNotFound
        /\ response[q][1].status = StatusOK
        /\ \E i, j \in Calls : Concurrent(i, j)

\* the callers inside a call
Invoked == {p \in Callers : pc[p] \notin {"start", "done"}}

\* the callers that wait for the lock
Waiting == {p \in Callers : pc[p] \in {"c_lock", "l_lock"}}

\* a call has returned ErrMaxSizeExceeded in this step
RejectedNow ==
    /\ Len(log') = Len(log) + 1
    /\ log'[Len(log')].err = ErrMaxSizeExceeded

\* C23 (lock discipline and progress): the lock is held by a caller inside
\* its critical section only, and the step by which the holder returns,
\* whatever it returns, releases it; the step of a call rejected for its
\* length is the call's only step and leaves the lock alone; the holder of
\* the lock can always take its next step; when a call is in progress some
\* caller can take a step; and, the scheduler and the lock being fair,
\* every call that has been invoked returns.
LockProgress ==
    /\ [](mu # 0 => mu \in Callers /\ InCriticalSection(mu))
    /\ [](\A p \in Callers : InCriticalSection(p) => mu = p /\ ENABLED Step(p))
    /\ [](Invoked # {} => \E p \in Invoked : ENABLED Step(p))
    /\ [][\A p \in Callers : mu = p /\ pc'[p] = "done" => mu' = 0]_vars
    /\ [][RejectedNow =>
            /\ mu' = mu
            /\ \E p \in Callers : pc[p] = "start" /\ pc'[p] = "done"]_vars
    /\ \A p \in Callers : (p \in Invoked) ~> (pc[p] = "done")

\* a call rejected for its length has returned and the lock is free, and
\* later a caller is in its critical section while another waits for the
\* lock
LockProgressWitness ==
    /\ \E i \in Calls : Rejected(i)
    /\ mu # 0
    /\ InCriticalSection(mu)
    /\ Waiting # {}

=============================================================================
